---- MODULE Spec2Model ----
(***************************************************************************)
(* pixl-request: the request orchestration of request.js as a state        *)
(* machine.  One logical request (one caller invocation of request()) is   *)
(* followed through the chain of attempts it recurses into.  Every event   *)
(* handler of the source (response headers, data, end, socket error,       *)
(* timers, socket lookup, download sink events, abort signal, zlib         *)
(* completion) is one action; a handler that recurses into request()       *)
(* performs the synchronous part of the new attempt in the same step.      *)
(***************************************************************************)
EXTENDS Integers, Sequences, FiniteSets, TLC

\* ------------------------------------------------------------------ bounds
\* follow + retries of a call: a chain has at most MaxBudget + 1 attempts
MaxBudget == 1
MaxChunks == 1
MaxTime == 1
\* the latest end mark of a timing phase, counted from the start of the total
MaxMark == 1

\* --------------------------------------------------------- program constants
\* the TTL given to setDNSCache() by an instance that enables the cache
DnsTTL == 1

\* ------------------------------------------------------------------- values
\* follow / retries hold false, true or an integer: isNum tells which,
\* v is the number (false = 0, true = 1 as JavaScript truthiness sees them)
Num(n) == [isNum |-> TRUE, v |-> n]
Bool(b) == [isNum |-> FALSE, v |-> IF b THEN 1 ELSE 0]
\* a budget test that is off by one: the last unit of the budget is not used
TruthyAboveOne(x) == x.v > 1
Truthy(x) == x.v # 0

\* hostnames, literal addresses and what the resolver answers
Names == {"h1", "h2"}
Addrs == {"10.0.0.1", "10.0.0.2"}
Hosts == Names \cup Addrs
Resolve(h) ==
  IF h = "h1" THEN "10.0.0.1"
  ELSE IF h = "localhost" THEN "127.0.0.1"
  ELSE "10.0.0.2"
isIP(h) == h \in Addrs

\* URLs: an absolute URL "http://<host>/" is written as its host; a relative
\* reference, as a Location header may hold one, as its path
RelativeRefs == {"/moved"}

\* require('url').parse( url ).hostname: null for a relative reference
UrlHostname(url) == IF url \in RelativeRefs THEN "null" ELSE url

\* the host http.request() connects to: options.hostname || 'localhost'
RequestHost(hostname) == IF hostname = "null" THEN "localhost" ELSE hostname

Statuses == {200, 302, 500}

\* the status codes a pattern of the class is matched against
StatusCodes == {200, 204, 301, 302, 307, 308, 404, 500, 503}

\* header names: which of them are well-formed HTTP tokens, and which header
\* values hold a character writeHead() rejects
TokenNames == {"Accept-Encoding", "User-Agent", "Host", "Content-Length",
               "content-type", "X-A"}
BadValues == {"bad\nvalue"}
checkIsHttpToken(name) == name \in TokenNames
checkInvalidHeaderChar(val) == val \in BadValues

\* a redirect pattern that leaves 302 out
followMatchNo302(status) == status \in {301, 307, 308}
followMatch(status) == status \in {301, 302, 307, 308}
\* a retry pattern that takes the 4xx range in as well
retryMatch_From400(status) == status \div 100 \in {4, 5}
retryMatch(status) == status \div 100 = 5
\* a success pattern that every status matches
successMatch_Any(status) == TRUE
successMatch(status) == status \div 100 = 2

\* the defaults of the class (module.exports = Class({...}))
defaultTimeout == 30000

\* the class property idleTimeout: 30000, which request() never reads: it
\* reads defaultIdleTimeout, which only setIdleTimeout() sets
proto_idleTimeout == 30000
\* a class default that follows redirects
defaultFollow_True == Bool(TRUE)
defaultFollow == Bool(FALSE)
defaultRetries == Bool(FALSE)
\* constructor: this.defaultHeaders, then setUserAgent()
defaultHeaders == [n \in {"Accept-Encoding", "User-Agent"} |->
                    IF n = "User-Agent" THEN "PixlRequest" ELSE "gzip, deflate, br"]

\* post_data.getHeaders() of a FormData body: the multipart boundary
form_headers == [n \in {"content-type"} |-> "multipart/form-data; boundary=b"]

VARIABLES
  self,       \* the instance that issues the logical request
  call,       \* the caller's url and options
  att,        \* the attempts of the logical request, in order
  outcomes,   \* the invocations of the caller's callback, in order
  sink,       \* the download sink (options.download)
  signal,     \* the caller's abort signal
  dns_cache,  \* var dns_cache: process-wide
  now,        \* the clock, in seconds
  metrics,    \* the phase timing finishPerf() returned last
  twin        \* the same request issued by an instance whose autoError differs

vars == <<self, call, att, outcomes, sink, signal, dns_cache, now, metrics,
          twin>>

NoEntry == [ip |-> "none", expires |-> 0]

\* the part of the state a handler reads and writes
World == [att |-> att, outcomes |-> outcomes, sink |-> sink,
          signal |-> signal, dns_cache |-> dns_cache]

CommitWorld(w) ==
  /\ att' = w.att
  /\ outcomes' = w.outcomes
  /\ sink' = w.sink
  /\ signal' = w.signal
  /\ dns_cache' = w.dns_cache

Commit(w) ==
  /\ CommitWorld(w)
  /\ UNCHANGED <<self, call, now, metrics, twin>>

\* callback( err, res, data, perf ): k is the attempt whose handler calls,
\* res the attempt whose response object is passed (0: null), kind tells what
\* data is ("none": null, "buffer", "sink"), timing whether perf is passed;
\* body holds the chunks a buffer is made of and coding the content coding
\* these bytes are still in ("none": they are the plain payload)
Outcome(k, err, res, kind, body, timing, counters) ==
  [by |-> k, err |-> err, res |-> res, kind |-> kind, body |-> body,
   coding |-> "none", timing |-> timing, counters |-> counters]

callback(w, o) == [w EXCEPT !.outcomes = Append(@, o)]

NoCounters == [requests |-> 0, retries |-> 0, redirects |-> 0]

\* perf.count( key, n )
count(c, key, n) == [c EXCEPT ![key] = @ + n]

\* a finishPerf that forgets the counters of the previous attempts
finishPerf_NoImport(c, old) == count(c, "requests", 1)

\* a finishPerf that adds the counters of the previous attempts twice
finishPerf_ImportsTwice(c, old) ==
  count([key \in DOMAIN c |-> c[key] + 2 * old[key]], "requests", 1)

\* finishPerf( perf, old_perf ), the counters: the previous attempts' counters
\* are added, then this attempt is counted as one request
finishPerf(c, old) ==
  count([key \in DOMAIN c |-> c[key] + old[key]], "requests", 1)

\* the phases of a request's timing, in the order finishPerf adjusts them
PhaseNames == {"dns", "connect", "send", "wait", "receive", "decompress"}

PrevPhase(key) ==
  CASE key = "decompress" -> "receive"
    [] key = "receive" -> "wait"
    [] key = "wait" -> "send"
    [] key = "send" -> "connect"
    [] key = "connect" -> "dns"
    [] OTHER -> "none"

\* perf.perf of a Perf object: the phases that were ended, and their elapsed
\* time (measured from the start of the total)
NoTiming == [has |-> {}, elapsed |-> [key \in PhaseNames |-> 0]]

\* a clamp that lets every value through
Clamp_Nothing(x) == x

\* if (p[key].elapsed) p[key].elapsed = Math.max(0, p[key].elapsed)
Clamp(x) == IF x # 0 THEN (IF x > 0 THEN x ELSE 0) ELSE x

\* the elapsed value of a phase after the adjustments of finishPerf: each
\* phase loses the elapsed time of the phase before it, if both were ended
Adjusted(p, key) ==
  IF key \in p.has /\ PrevPhase(key) \in p.has
    THEN p.elapsed[key] - p.elapsed[PrevPhase(key)]
    ELSE p.elapsed[key]

\* a finishPerf that keeps the phases of this attempt alone
finishPerfPhases_OwnOnly(p, hasOld, old) ==
  [has |-> p.has,
   elapsed |-> [key \in PhaseNames |->
      IF key \in p.has THEN Clamp(Adjusted(p, key)) ELSE 0]]

\* finishPerf( perf, old_perf ), the phases: adjust, clamp, then import the
\* phases of the previous attempts (hasOld: old_perf is not null)
finishPerfPhases(p, hasOld, old) ==
  [has |-> p.has \cup (IF hasOld THEN old.has ELSE {}),
   elapsed |-> [key \in PhaseNames |->
      (IF key \in p.has THEN Clamp(Adjusted(p, key)) ELSE 0)
      + (IF hasOld /\ key \in old.has THEN old.elapsed[key] ELSE 0)]]

\* finishPerf( perf, old_perf ), the start of the total: that of the previous
\* attempts' timing if there is one, else the perf.begin() of this attempt
finishPerfStart(start, hasOld, old_start) ==
  IF hasOld THEN old_start ELSE start

\* whitelist.check( ip ) / blacklist.check( ip )
AclCheck(list, ip) == ip \in list

\* the early ACL check of a URL that points directly at an IP address
EarlyAclError(inst, hostname) ==
  IF ~isIP(hostname) THEN "none"
  ELSE IF inst.hasWhitelist /\ ~AclCheck(inst.whitelist, hostname)
         THEN "IP is not whitelisted"
  ELSE IF inst.hasBlacklist /\ AclCheck(inst.blacklist, hostname)
         THEN "IP is blacklisted"
  ELSE "none"

\* options.headers after the default headers were merged in
MergeHeaders(h, d) ==
  [n \in DOMAIN h \cup DOMAIN d |-> IF n \in DOMAIN h THEN h[n] ELSE d[n]]

\* a header assignment that is lost
SetHeader_Lost(h, name, val) == h

SetHeader(h, name, val) ==
  [n \in DOMAIN h \cup {name} |-> IF n = name THEN val ELSE h[n]]

\* a validation that looks at the header names only
HeaderErrorNamesOnly(h) ==
  IF \E n \in DOMAIN h : ~checkIsHttpToken(n)
    THEN "Invalid characters in header name"
  ELSE "none"

\* the first header that fails validation decides the error
HeaderError(h) ==
  IF \E n \in DOMAIN h : ~checkIsHttpToken(n)
    THEN "Invalid characters in header name"
  ELSE IF \E n \in DOMAIN h : checkInvalidHeaderChar(h[n])
    THEN "Invalid characters in header value"
  ELSE "none"

\* a recursion that passes the budget on as it is
Countdown_Keeps(x) == x

\* follow / retries as passed on: a number is decremented, a boolean kept
Countdown(x) == IF x.isNum THEN Num(x.v - 1) ELSE x

\* a destroy that leaves the request open
DestroyNothing(state) == state

\* req.destroy() / req.abort(): a request that ended or failed stays as it is
Destroy(state) == IF state \in {"wait", "resp"} THEN "destroyed" ELSE state

OptionKeys == {"headers", "timeout", "idleTimeout", "follow", "retries",
               "download", "signal", "perf"}

\* a recursion that passes on the budgets and the headers only: the next
\* attempt runs with the timeouts of the class and without sink, signal,
\* hooks and body
RevertOptions_BudgetsOnly(a, follow, retries, perf) ==
  [keys |-> {"headers", "follow", "retries", "perf"}, headers |-> a.headers,
   timeout |-> a.timeout, idleTimeout |-> a.idleTimeout,
   follow |-> follow, retries |-> retries,
   download |-> "none", signal |-> FALSE, perf |-> perf,
   method |-> a.method, data |-> "none", progress |-> FALSE,
   preflight |-> "none"]

\* "revert options to original state": the options object handed to the
\* recursive request() by a redirect or a retry of attempt a; options.method
\* was never taken out of it
RevertOptions(a, follow, retries, perf) ==
  [keys |-> OptionKeys, headers |-> a.headers, timeout |-> a.timeout,
   idleTimeout |-> a.idleTimeout, follow |-> follow, retries |-> retries,
   download |-> a.download, signal |-> a.signal, perf |-> perf,
   method |-> a.method, data |-> a.data, progress |-> a.progress,
   preflight |-> a.preflight]

\* request( url, options, callback ), the synchronous part: the new attempt
\* is appended to w.att; it has an open transport call (req = "wait") unless
\* an early return delivered an error
\* a cache test that still uses an entry at the second it expires
StillFresh_AtExpiry(obj, t) == obj.expires >= t

\* if (obj.expires > now): "cache is still fresh"
StillFresh(obj, t) == obj.expires > t

Request(w, url, options) ==
  LET k == Len(w.att) + 1
      old_perf == IF "perf" \in options.keys THEN options.perf ELSE NoCounters
      given == IF "headers" \in options.keys THEN options.headers ELSE <<>>
      headers1 == MergeHeaders(given, defaultHeaders)
      \* options.hostname was deleted by a recursion: parts.hostname it is
      hostname0 == UrlHostname(url)
      aclErr == EarlyAclError(self, hostname0)
      entry == w.dns_cache[hostname0]
      cached == self.dnsTTL # 0 /\ entry # NoEntry
      fresh == cached /\ StillFresh(entry, now)
      headers2 == IF fresh THEN SetHeader(headers1, "Host", hostname0)
                  ELSE headers1
      hostname == IF fresh THEN entry.ip ELSE hostname0
      cache2 == IF cached /\ ~fresh
                  THEN [w.dns_cache EXCEPT ![hostname0] = NoEntry]
                ELSE w.dns_cache
      timeout == IF "timeout" \in options.keys THEN options.timeout
                 ELSE self.defaultTimeout
      idleTimeout == IF "idleTimeout" \in options.keys THEN options.idleTimeout
                     ELSE self.defaultIdleTimeout
      follow == IF "follow" \in options.keys THEN options.follow
                ELSE self.defaultFollow
      retries == IF "retries" \in options.keys THEN options.retries
                 ELSE self.defaultRetries
      download0 == IF "download" \in options.keys THEN options.download ELSE "none"
      \* a path: fs.createWriteStream(), and this attempt's error listener
      sink2 == IF download0 = "path"
                 THEN [state |-> "open", data |-> <<>>, errL |-> <<k>>,
                       finishL |-> <<>>]
                 ELSE w.sink
      download == IF download0 = "path" THEN "stream" ELSE download0
      hasSignal == "signal" \in options.keys /\ options.signal
      \* "prep post data": raw data gets a Content-Length (autoContentLength)
      post_data == options.data
      \* a FormData body: for (key in form_headers) options.headers[key] = ...
      headers3 == IF post_data = "form"
                    THEN MergeHeaders(form_headers, headers2)
                  ELSE IF post_data # "none"
                    THEN SetHeader(headers2, "Content-Length", "7")
                  ELSE headers2
      hdrErr == HeaderError(headers3)
      a == [url |-> url, hostname |-> hostname,
            host |-> RequestHost(hostname), headers |-> headers3,
            method |-> options.method, data |-> post_data,
            progress |-> options.progress, preflight |-> options.preflight,
            timeout |-> timeout, idleTimeout |-> idleTimeout,
            follow |-> follow, retries |-> retries,
            download |-> download, signal |-> hasSignal,
            old_perf |-> old_perf, counters |-> NoCounters,
            callback_fired |-> FALSE, aborted |-> FALSE,
            timer |-> "none", receivedPacket |-> FALSE,
            req |-> "none", cached |-> fresh, lookup |-> FALSE, addr |-> "none",
            status |-> 0, location |-> FALSE, enc |-> "none", err |-> "none",
            mode |-> "none", sent |-> 0, chunks |-> <<>>,
            fail |-> "none", via |-> "none"]
  IN
  IF aclErr # "none" THEN
    \* return callback( new Error(...) )
    callback([w EXCEPT !.att = Append(@, a)],
             Outcome(k, aclErr, 0, "none", <<>>, FALSE, NoCounters))
  ELSE IF hdrErr # "none" THEN
    callback([w EXCEPT !.att = Append(@, [a EXCEPT !.callback_fired = TRUE]),
                       !.dns_cache = cache2, !.sink = sink2],
             Outcome(k, hdrErr, 0, "none", <<>>, FALSE, NoCounters))
  ELSE
    [w EXCEPT !.att = Append(@, [a EXCEPT
                 !.req = "wait",
                 !.addr = IF isIP(hostname) THEN hostname ELSE "none",
                 !.timer = IF timeout # 0 THEN "ttfb" ELSE "none"]),
              !.dns_cache = cache2, !.sink = sink2]

\* the recursion of attempt k into request(): the attempt's options object
\* loses protocol, hostname, port, path and auth, and is passed on
Recurse(w, k, via, url, follow, retries, key) ==
  LET a == w.att[k]
      c == count(a.counters, key, 1)
      perf == finishPerf(c, a.old_perf)
      w1 == [w EXCEPT !.att[k].counters = perf,
                      !.att[k].hostname = "undefined",
                      !.att[k].callback_fired = TRUE,
                      !.att[k].via = via]
  IN Request(w1, url, RevertOptions(a, follow, retries, perf))

\* a timeout handler without the dead man's switch
handleTimeout_IgnoresData(w, k, msg) ==
  LET a == w.att[k] IN
  IF a.aborted THEN w
  ELSE
    LET w1 == [w EXCEPT !.att[k].aborted = TRUE,
                        !.att[k].req = Destroy(a.req)]
    IN IF a.callback_fired THEN w1
       ELSE IF Truthy(a.retries) THEN
         Recurse(w1, k, "timeout", a.url, a.follow, Countdown(a.retries), "retries")
       ELSE
         callback([w1 EXCEPT !.att[k].callback_fired = TRUE],
                  Outcome(k, msg, 0, "none", <<>>, TRUE,
                          finishPerf(a.counters, a.old_perf)))

\* a timeout handler that leaves the request in flight
handleTimeout_KeepsRequest(w, k, msg) ==
  LET a == w.att[k] IN
  IF a.receivedPacket /\ a.idleTimeout # 0 THEN
    [w EXCEPT !.att[k].receivedPacket = FALSE, !.att[k].timer = "idle"]
  ELSE IF a.aborted THEN w
  ELSE
    LET w1 == [w EXCEPT !.att[k].aborted = TRUE]
    IN IF a.callback_fired THEN w1
       ELSE IF Truthy(a.retries) THEN
         Recurse(w1, k, "timeout", a.url, a.follow, Countdown(a.retries), "retries")
       ELSE
         callback([w1 EXCEPT !.att[k].callback_fired = TRUE],
                  Outcome(k, msg, 0, "none", <<>>, TRUE,
                          finishPerf(a.counters, a.old_perf)))

\* handleTimeout( msg, ms ) of attempt k
handleTimeout(w, k, msg) ==
  LET a == w.att[k] IN
  IF a.receivedPacket /\ a.idleTimeout # 0 THEN
    [w EXCEPT !.att[k].receivedPacket = FALSE, !.att[k].timer = "idle"]
  ELSE IF a.aborted THEN w
  ELSE
    LET w1 == [w EXCEPT !.att[k].aborted = TRUE,
                        !.att[k].req = Destroy(a.req)]
    IN IF a.callback_fired THEN w1
       ELSE IF Truthy(a.retries) THEN
         Recurse(w1, k, "timeout", a.url, a.follow, Countdown(a.retries), "retries")
       ELSE
         callback([w1 EXCEPT !.att[k].callback_fired = TRUE],
                  Outcome(k, msg, 0, "none", <<>>, TRUE,
                          finishPerf(a.counters, a.old_perf)))

\* the message handleSocketError builds from the error
SocketErrorMessage(e) ==
  IF e = "ENOTFOUND" THEN "DNS: Failed to lookup IP from hostname"
  ELSE IF e = "ECONNREFUSED" THEN "Connection Refused: Failed to connect to host"
  ELSE "Connection reset by peer"

\* handleSocketError( e ) of attempt k
handleSocketError(w, k, e) ==
  LET a == w.att[k] IN
  IF a.aborted THEN w
  ELSE
    LET w1 == [w EXCEPT !.att[k].aborted = TRUE, !.att[k].timer = "none"]
    IN IF a.callback_fired THEN w1
       ELSE IF Truthy(a.retries) THEN
         Recurse(w1, k, "error", a.url, a.follow, Countdown(a.retries), "retries")
       ELSE
         callback([w1 EXCEPT !.att[k].callback_fired = TRUE],
                  Outcome(k, SocketErrorMessage(e), 0, "none", <<>>, TRUE,
                          finishPerf(a.counters, a.old_perf)))

\* handleIPError( err ) of attempt k
handleIPError(w, k, err) ==
  LET a == w.att[k] IN
  IF a.aborted THEN w
  ELSE
    LET w1 == [w EXCEPT !.att[k].aborted = TRUE,
                        !.att[k].req = Destroy(a.req),
                        !.att[k].timer = "none"]
    IN IF a.callback_fired THEN w1
       ELSE callback([w1 EXCEPT !.att[k].callback_fired = TRUE],
                     Outcome(k, err, 0, "none", <<>>, TRUE,
                             finishPerf(a.counters, a.old_perf)))

\* the 'abort' listener of attempt k
aborter(w, k) ==
  LET a == w.att[k] IN
  IF a.aborted \/ a.callback_fired THEN w
  ELSE callback([w EXCEPT !.att[k].aborted = TRUE,
                          !.att[k].callback_fired = TRUE,
                          !.att[k].req = Destroy(a.req)],
                Outcome(k, "Request Aborted", k, "none", <<>>, TRUE,
                        finishPerf(a.counters, a.old_perf)))

\* the download sink's 'error' listener, added by the attempt that opened a path
sinkError(w, k) ==
  LET a == w.att[k]
      w1 == [w EXCEPT !.att[k].timer = "none"]
  IN IF a.callback_fired THEN w1
     ELSE callback([w1 EXCEPT !.att[k].callback_fired = TRUE],
                   Outcome(k, "sink error", 0, "none", <<>>, FALSE, NoCounters))

\* the download sink's 'finish' listener of attempt k
sinkFinish(w, k) ==
  LET a == w.att[k]
      w1 == [w EXCEPT !.att[k].timer = "none"]
  IN IF a.callback_fired THEN w1
     ELSE callback([w1 EXCEPT !.att[k].callback_fired = TRUE],
                   Outcome(k, a.err, k, "sink", w.sink.data, TRUE,
                           finishPerf(a.counters, a.old_perf)))

\* const hasBrotli = !!zlib.BrotliCompress, true on every Node.js since v10.16
hasBrotli == TRUE

\* the Content-Encoding values a server sends ("none": no such header)
ContentEncodings == {"none", "gzip", "deflate", "br"}

\* a choice of zlib function that knows gzip only
ZlibFunction_GzipOnly(enc) == IF enc = "gzip" THEN "gunzip" ELSE "none"

\* the zlib function the 'end' handler picks for a content-encoding: the
\* header is matched against br, then gzip, then deflate
ZlibFunction(enc) ==
  IF enc = "br" /\ hasBrotli THEN "brotliDecompress"
  ELSE IF enc = "gzip" THEN "gunzip"
  ELSE IF enc = "deflate" THEN "inflate"
  ELSE "none"

\* zlib.brotliDecompress / gunzip / inflate applied to bytes in the given
\* coding: the plain payload if the function is the inverse of the coding,
\* otherwise the call fails
Decompress(fn, coding) ==
  IF \/ fn = "brotliDecompress" /\ coding = "br"
     \/ fn = "gunzip" /\ coding = "gzip"
     \/ fn = "inflate" /\ coding = "deflate"
    THEN "none" ELSE "error"

\* a classification that tests the retry pattern before the redirect
Classify_RetryFirst(follow, retries, status, hasLocation) ==
  IF Truthy(retries) /\ status \in self.retryMatch THEN "Retry"
  ELSE IF Truthy(follow) /\ status \in self.followMatch /\ hasLocation
    THEN "Redirect"
  ELSE "Proceed"

\* what the response handler does with a response: "check for auto-redirect",
\* then "check for retry", else the response is the caller's
Classify(follow, retries, status, hasLocation) ==
  IF Truthy(follow) /\ status \in self.followMatch /\ hasLocation
    THEN "Redirect"
  ELSE IF Truthy(retries) /\ status \in self.retryMatch THEN "Retry"
  ELSE "Proceed"

\* the preflight / pre_download hooks a caller passes ("none": no hook):
\* one that sets up its own pipe to the sink and returns true, one that sets
\* up nothing and returns undefined, one that returns false
Hooks == {"pipes", "skips", "declines"}

\* a test that takes every falsy return value for false
Declines_Falsy(hook) == hook \in {"declines", "skips"}

\* pre_download( null, res, download ) === false
Declines(hook) == hook = "declines"

\* the response handler of attempt k, proto_class.request( options,
\* function(res) ), of an instance whose autoError is as given, once it is
\* decided what is done with the response
Respond(autoError, w, k, status, location, enc, decision) ==
  LET a == w.att[k]
      \* first byte: clear the initial timer, arm the idle timer
      w1 == [w EXCEPT !.att[k].req = "resp", !.att[k].status = status,
                      !.att[k].location = (location # "none"),
                      !.att[k].timer = IF a.idleTimeout # 0 THEN "idle" ELSE "none"]
  IN
  IF decision = "Redirect" THEN
    Recurse([w1 EXCEPT !.att[k].mode = "drain", !.att[k].timer = "none"],
            k, "redirect", location, Countdown(a.follow), a.retries, "redirects")
  ELSE IF decision = "Retry" THEN
    Recurse([w1 EXCEPT !.att[k].mode = "drain", !.att[k].timer = "none"],
            k, "status", a.url, a.follow, Countdown(a.retries), "retries")
  ELSE
    LET err == IF autoError /\ status \notin self.successMatch
                 THEN "HTTP" ELSE "none"
        w2 == [w1 EXCEPT !.att[k].err = err]
        \* abort controller
        w3 == IF ~a.signal THEN w2
              ELSE LET reg == [w2 EXCEPT !.signal.listeners = Append(@, k)]
                   IN IF w.signal.aborted THEN aborter(reg, k) ELSE reg
    IN IF a.download = "none"
         THEN [w3 EXCEPT !.att[k].mode = "buffer", !.att[k].enc = enc]
       ELSE IF a.preflight # "none" /\ Declines(a.preflight)
         THEN \* "special pre-abort error case, switch to buffer mode":
              \* download.removeAllListeners('finish'); download = null
              [w3 EXCEPT !.att[k].mode = "buffer", !.att[k].enc = enc,
                         !.att[k].download = "none", !.sink.finishL = <<>>]
       ELSE IF a.preflight = "skips"
         THEN \* the 'finish' listener, and no pipe by anyone
              [w3 EXCEPT !.att[k].mode = "unpiped",
                         !.sink.finishL = Append(@, k)]
         ELSE \* stream mode: 'finish' listener, then res.pipe( download ),
              \* by the library or by the preflight hook given the stream
              [w3 EXCEPT !.att[k].mode = "stream",
                         !.sink.finishL = Append(@, k)]

\* a response handler that looks at autoError first: a response that is an
\* error for the caller is neither followed nor retried
responseHandlerFor_ErrorFirst(autoError, w, k, status, location, enc) ==
  Respond(autoError, w, k, status, location, enc,
          IF autoError /\ status \notin self.successMatch THEN "Proceed"
          ELSE Classify(w.att[k].follow, w.att[k].retries, status,
                        location # "none"))

\* the response handler: "check for auto-redirect", "check for retry", and
\* only then autoError
responseHandlerFor(autoError, w, k, status, location, enc) ==
  Respond(autoError, w, k, status, location, enc,
          Classify(w.att[k].follow, w.att[k].retries, status,
                   location # "none"))

responseHandler(w, k, status, location, enc) ==
  responseHandlerFor(self.autoError, w, k, status, location, enc)

\* res.on('data') of attempt k, by the mode the response handler chose
onData(w, k) ==
  LET a == w.att[k]
      chunk == <<k, a.sent + 1>>
      w1 == [w EXCEPT !.att[k].sent = a.sent + 1]
  IN
  \* a followed or retried response is drained: function () {}
  IF a.mode = "drain" THEN w ELSE
  IF a.mode = "stream" THEN
    \* the pipe writes the chunk while the sink takes writes
    [w1 EXCEPT !.att[k].receivedPacket = TRUE,
               !.sink.data = IF w.sink.state = "open" THEN Append(@, chunk) ELSE @]
  ELSE IF a.mode = "buffer" THEN
    [w1 EXCEPT !.att[k].chunks = Append(@, chunk),
               !.att[k].receivedPacket = TRUE]
  ELSE IF a.mode = "unpiped" THEN
    \* the stream mode 'data' listener alone
    [w1 EXCEPT !.att[k].receivedPacket = TRUE]
  ELSE w1

\* res.on('end') of attempt k
onEnd(w, k) ==
  LET a == w.att[k]
      w1 == [w EXCEPT !.att[k].req = "end"]
  IN
  IF a.mode = "stream" THEN
    \* the pipe ends the sink, which emits 'finish' once flushed
    [w1 EXCEPT !.sink.state = IF @ = "open" THEN "ending" ELSE @]
  ELSE IF a.mode = "buffer" THEN
    LET w2 == [w1 EXCEPT !.att[k].timer = "none"] IN
    IF Len(a.chunks) > 0 /\ self.autoDecompress
         /\ ZlibFunction(a.enc) # "none" THEN
      \* zlib.gunzip( buf, function ) and its like call back later
      [w2 EXCEPT !.att[k].mode = "zlib"]
    ELSE IF a.callback_fired THEN w2
    ELSE \* the buffer as received, or Buffer.alloc(0)
         callback([w2 EXCEPT !.att[k].callback_fired = TRUE],
                  [Outcome(k, a.err, k, "buffer", a.chunks, TRUE,
                           finishPerf(a.counters, a.old_perf))
                     EXCEPT !.coding = IF Len(a.chunks) > 0 THEN a.enc
                                       ELSE "none"])
  ELSE w1

\* the completion callback of zlib.brotliDecompress / gunzip / inflate;
\* corrupt: the bytes received are not a whole stream of their coding
onDecompress(w, k, corrupt) ==
  LET a == w.att[k]
      w1 == [w EXCEPT !.att[k].mode = "done"]
      data == Decompress(ZlibFunction(a.enc), a.enc)
      zerr == corrupt \/ data = "error"
  IN IF a.callback_fired THEN w1
     ELSE callback([w1 EXCEPT !.att[k].callback_fired = TRUE],
                   [Outcome(k, IF a.err # "none" THEN a.err
                               ELSE IF zerr THEN "zlib" ELSE "none",
                            k, IF zerr THEN "none" ELSE "buffer",
                            IF zerr THEN <<>> ELSE a.chunks, TRUE,
                            finishPerf(a.counters, a.old_perf))
                      EXCEPT !.coding = IF zerr THEN "none" ELSE data])

\* a lookup listener that caches the address before it checks it
onLookup_CachesRejected(w, k, address) ==
  LET a == w.att[k]
      w1 == [w EXCEPT !.att[k].lookup = TRUE, !.att[k].addr = address,
                      !.dns_cache[a.hostname] =
                         IF self.dnsTTL # 0
                           THEN [ip |-> address, expires |-> now + self.dnsTTL]
                         ELSE @]
  IN
  IF self.hasWhitelist /\ ~AclCheck(self.whitelist, address) THEN
    handleIPError(w1, k, "IP is not whitelisted")
  ELSE IF self.hasBlacklist /\ AclCheck(self.blacklist, address) THEN
    handleIPError(w1, k, "IP is blacklisted")
  ELSE w1

\* a lookup listener that caches whatever the instance's TTL is
onLookup_AlwaysCaches(w, k, address) ==
  LET a == w.att[k]
      w1 == [w EXCEPT !.att[k].lookup = TRUE, !.att[k].addr = address]
  IN
  IF self.hasWhitelist /\ ~AclCheck(self.whitelist, address) THEN
    handleIPError(w1, k, "IP is not whitelisted")
  ELSE IF self.hasBlacklist /\ AclCheck(self.blacklist, address) THEN
    handleIPError(w1, k, "IP is blacklisted")
  ELSE [w1 EXCEPT !.dns_cache[a.hostname] =
                     [ip |-> address, expires |-> now + DnsTTL]]

\* socket.once('lookup') of attempt k
onLookup(w, k, address) ==
  LET a == w.att[k]
      w1 == [w EXCEPT !.att[k].lookup = TRUE, !.att[k].addr = address]
  IN
  IF self.hasWhitelist /\ ~AclCheck(self.whitelist, address) THEN
    handleIPError(w1, k, "IP is not whitelisted")
  ELSE IF self.hasBlacklist /\ AclCheck(self.blacklist, address) THEN
    handleIPError(w1, k, "IP is blacklisted")
  ELSE IF self.dnsTTL # 0 THEN
    [w1 EXCEPT !.dns_cache[a.hostname] =
                  [ip |-> address, expires |-> now + self.dnsTTL]]
  ELSE w1

\* listeners run in the order they were added
RECURSIVE RunListeners(_, _, _)
RunListeners(w, ks, kind) ==
  IF ks = <<>> THEN w
  ELSE LET k == Head(ks)
           w1 == IF kind = "abort" THEN aborter(w, k)
                 ELSE IF kind = "finish" THEN sinkFinish(w, k)
                 ELSE sinkError(w, k)
       IN RunListeners(w1, Tail(ks), kind)

\* ------------------------------------------------------------ initial states
CacheKeys == Hosts \cup {"undefined", "null"}

\* an instance as its setters leave it: setIdleTimeout, setDNSCache,
\* setAutoError, setWhitelist / setBlacklist
Instance(idle, ttl, autoErr, acl) ==
  [defaultTimeout |-> defaultTimeout, defaultIdleTimeout |-> idle,
   defaultFollow |-> defaultFollow, defaultRetries |-> defaultRetries,
   followMatch |-> {status \in StatusCodes : followMatch(status)},
   retryMatch |-> {status \in StatusCodes : retryMatch(status)},
   successMatch |-> {status \in StatusCodes : successMatch(status)},
   dnsTTL |-> ttl, autoError |-> autoErr, autoDecompress |-> TRUE,
   hasWhitelist |-> acl = "white", whitelist |-> {"10.0.0.1"},
   hasBlacklist |-> acl = "black", blacklist |-> {"10.0.0.2"}]

\* the instances of the orchestration runs: no DNS cache, with and without
\* an address policy
Instances == {Instance(0, 0, FALSE, acl) : acl \in {"none", "black"}}

HeaderSets == {[n \in {"X-A"} |-> "v"], [n \in {"Bad Name"} |-> "v"],
               [n \in {"X-A"} |-> "bad\nvalue"]}

Options(keys, headers, timeout, idle, follow, retries, download) ==
  [keys |-> keys, headers |-> headers, timeout |-> timeout,
   idleTimeout |-> idle, follow |-> follow, retries |-> retries,
   download |-> download, signal |-> "signal" \in keys, perf |-> NoCounters,
   method |-> "GET", data |-> "none", progress |-> FALSE,
   preflight |-> "none"]

\* the options objects a caller passes: the first-byte timeout is left to the
\* instance default, the idle timeout is given or left to the instance too;
\* budgets are given, a sink and a signal may be
CallOptions ==
  {Options(OptionKeys \ ({"perf", "timeout"} \cup
                          (IF d = "none" THEN {"download"} ELSE {}) \cup
                          (IF sig THEN {} ELSE {"signal"}) \cup
                          (IF idle THEN {} ELSE {"idleTimeout"})),
           h, 0, 5, Num(f), Num(r), d) :
     h \in HeaderSets, f \in 0..MaxBudget, r \in 0..MaxBudget,
     d \in {"none", "path", "stream"}, sig \in BOOLEAN, idle \in BOOLEAN}

Calls == {[url |-> u, options |-> o] : u \in Hosts, o \in CallOptions}

InitRequest ==
  /\ att = <<>>
  /\ outcomes = <<>>
  /\ sink = [state |-> IF "download" \in call.options.keys
                          /\ call.options.download = "stream"
                        THEN "open" ELSE "none",
              data |-> <<>>, errL |-> <<>>, finishL |-> <<>>]
  /\ signal = [present |-> "signal" \in call.options.keys
                            /\ call.options.signal,
                aborted |-> FALSE, listeners |-> <<>>, early |-> FALSE]
  /\ dns_cache = [h \in CacheKeys |-> NoEntry]
  /\ now = 0
  /\ metrics = [perf |-> NoTiming, attempts |-> "none", clamped |-> FALSE,
                start |-> 0, first |-> 0,
                sum |-> [key \in PhaseNames |-> 0]]
  /\ twin = World

\* a call that uses a sink or a signal
Featured(c) == c.options.keys \cap {"download", "signal"} # {}

HasPolicy(inst) == inst.hasWhitelist \/ inst.hasBlacklist

\* The calls explored.  Calls with valid headers run whole chains: plain
\* calls of an instance without address policy with every budget up to
\* MaxBudget; calls with a sink or a signal, and calls of an instance with a
\* policy, with one retry or redirect.  Without a policy all hosts behave
\* alike and the URL is h1.
Init ==
  /\ self \in Instances
  /\ call \in Calls
  /\ call.options.follow.v + call.options.retries.v <= MaxBudget
  /\ HeaderError(call.options.headers) = "none" =>
       /\ Featured(call) \/ HasPolicy(self) =>
            call.options.follow.v + call.options.retries.v <= 1
       /\ Featured(call) => ~HasPolicy(self)
       /\ ~HasPolicy(self) => call.url = "h1"
  /\ InitRequest

\* ------------------------------------------------------------------ actions
Attempts == 1..Len(att)

\* the caller invokes request( url, options, callback )
CallRequest ==
  /\ att = <<>>
  /\ Commit(Request(World, call.url, call.options))

\* the socket resolved the hostname of attempt k
Lookup(k) ==
  /\ att[k].req \in {"wait", "destroyed"}
  /\ att[k].addr = "none"
  /\ Commit(onLookup(World, k, Resolve(att[k].host)))

\* the Location header values a server sends ("none": no such header)
Locations == {"none", "h1", "h2", "10.0.0.2"}

\* the response headers of attempt k arrive
Headers(k, status, location, enc) ==
  /\ att[k].req = "wait"
  /\ location # "none" => status \in {302}
  /\ att[k].addr # "none"
  /\ Commit(responseHandler(World, k, status, location, enc))

\* a chunk of the response body of attempt k arrives
Data(k) ==
  /\ att[k].req = "resp"
  /\ att[k].sent < MaxChunks
  /\ Commit(onData(World, k))

\* the response of attempt k ends
End(k) ==
  /\ att[k].req = "resp"
  /\ Commit(onEnd(World, k))

\* the request or the response of attempt k emits 'error'
ReqError(k, e) ==
  /\ att[k].req \in {"wait", "resp"}
  /\ e = "ECONNRESET" \/ att[k].req = "wait"
  /\ Commit(handleSocketError(
       [World EXCEPT !.att[k].req = "closed", !.att[k].fail = e], k, e))

\* a request the library destroyed emits its 'error' (socket hang up)
HangUp(k) ==
  /\ att[k].req = "destroyed"
  /\ Commit(handleSocketError(
       [World EXCEPT !.att[k].req = "closed"], k, "ECONNRESET"))

\* the armed timer of attempt k expires
TimerFire(k) ==
  /\ att[k].timer # "none"
  /\ LET msg == IF att[k].timer = "ttfb" THEN "Request Timeout"
                ELSE "Idle Timeout"
         expired == ~(att[k].receivedPacket /\ att[k].idleTimeout # 0)
     IN Commit(handleTimeout(
          [World EXCEPT !.att[k].timer = "none",
                        !.att[k].fail = IF expired /\ @ = "none" THEN msg ELSE @],
          k, msg))

\* zlib calls back for attempt k
Decompressed(k, corrupt) ==
  /\ att[k].mode = "zlib"
  /\ Commit(onDecompress(World, k, corrupt))

\* the download sink emits 'finish'
SinkFinish ==
  /\ sink.state = "ending"
  /\ Commit(RunListeners([World EXCEPT !.sink.state = "finished"],
                         sink.finishL, "finish"))

\* the download sink emits 'error'
SinkError ==
  /\ sink.state \in {"open", "ending"}
  /\ Commit(RunListeners([World EXCEPT !.sink.state = "errored"],
                         sink.errL, "error"))

\* the caller aborts: the signal's 'abort' listeners run once
AbortSignal ==
  /\ att # <<>>
  /\ signal.present
  /\ ~signal.aborted
  /\ Commit(RunListeners([World EXCEPT !.signal.aborted = TRUE,
                                       !.signal.early = (outcomes = <<>>),
                                       !.signal.listeners = <<>>],
                         signal.listeners, "abort"))

\* a second passes
Tick ==
  /\ now < MaxTime
  /\ now' = now + 1
  /\ UNCHANGED <<self, call, att, outcomes, sink, signal, dns_cache, metrics,
                 twin>>

Next ==
  \/ CallRequest
  \/ \E k \in Attempts : Lookup(k)
  \/ \E k \in Attempts, status \in Statuses, location \in Locations,
        enc \in {"none", "gzip"} : Headers(k, status, location, enc)
  \/ \E k \in Attempts : Data(k)
  \/ \E k \in Attempts : End(k)
  \/ \E k \in Attempts, e \in {"ECONNREFUSED", "ECONNRESET"} : ReqError(k, e)
  \/ \E k \in Attempts : HangUp(k)
  \/ \E k \in Attempts : TimerFire(k)
  \/ \E k \in Attempts : Decompressed(k, FALSE)
  \/ SinkFinish
  \/ SinkError
  \/ AbortSignal

Spec == Init /\ [][Next]_vars

\* ------------------------------------------------- the process-wide DNS cache
\* the instance under study caches lookups and has an address policy, or it
\* has neither a policy nor a cache (dnsTTL 0) while its peers use the cache
InstancesDns ==
  {Instance(0, DnsTTL, FALSE, acl) : acl \in {"white", "black"}}
    \cup {Instance(0, 0, FALSE, "none")}

\* plain calls: no sink, no signal, no idle timeout, valid headers, one retry
\* or redirect
InitDns ==
  /\ self \in InstancesDns
  /\ call \in Calls
  /\ call.options.follow.v + call.options.retries.v <= 1
  /\ HeaderError(call.options.headers) = "none"
  /\ ~Featured(call)
  /\ "idleTimeout" \notin call.options.keys
  /\ InitRequest

\* another instance of the process, with setDNSCache() and no address policy,
\* requests host h: its socket's lookup listener writes the shared dns_cache
PeerLookup(h) ==
  /\ ~(dns_cache[h] # NoEntry /\ dns_cache[h].expires > now)
  /\ dns_cache' = [dns_cache EXCEPT ![h] =
                     [ip |-> Resolve(h), expires |-> now + DnsTTL]]
  /\ UNCHANGED <<self, call, att, outcomes, sink, signal, now, metrics, twin>>

NextDns ==
  \/ CallRequest
  \/ \E k \in Attempts : Lookup(k)
  \/ \E k \in Attempts, status \in Statuses, location \in Locations,
        enc \in {"none", "gzip"} : Headers(k, status, location, enc)
  \/ \E k \in Attempts : Data(k)
  \/ \E k \in Attempts : End(k)
  \/ \E k \in Attempts, e \in {"ECONNREFUSED", "ECONNRESET"} : ReqError(k, e)
  \/ \E k \in Attempts : HangUp(k)
  \/ \E k \in Attempts : TimerFire(k)
  \/ \E k \in Attempts : Decompressed(k, FALSE)
  \/ \E h \in Names : PeerLookup(h)
  \/ Tick

SpecDns == InitDns /\ [][NextDns]_vars

\* ------------------------------------------- classification and auto errors
\* instances with and without setAutoError( true ); the retry pattern is the
\* default one or one that matches 302 as well
InstancesConfig ==
  {[Instance(0, 0, autoErr, "none") EXCEPT !.retryMatch = @ \cup extra] :
     autoErr \in BOOLEAN, extra \in {{}, {302}}}

\* calls that give both budgets or leave both to the instance defaults, with
\* and without a download path
CallsConfig ==
  {[url |-> "h1",
    options |-> Options({"headers"} \cup
                          (IF given THEN {"follow", "retries"} ELSE {}) \cup
                          (IF d = "none" THEN {} ELSE {"download"}),
                        [n \in {"X-A"} |-> "v"], 0, 0, Num(f), Num(r), d)] :
     given \in BOOLEAN, f \in 0..MaxBudget, r \in 0..MaxBudget,
     d \in {"none", "path"}}

InitConfig ==
  /\ self \in InstancesConfig
  /\ call \in CallsConfig
  /\ "follow" \notin call.options.keys =>
       call.options.follow.v = 0 /\ call.options.retries.v = 0
  /\ call.options.follow.v + call.options.retries.v
       <= (IF "download" \in call.options.keys THEN 1 ELSE 2)
  /\ InitRequest

StatusesConfig == Statuses \cup {404}

NextConfig ==
  \/ CallRequest
  \/ \E k \in Attempts : Lookup(k)
  \/ \E k \in Attempts, status \in StatusesConfig, location \in {"none", "h1"},
        enc \in {"none", "gzip"} : Headers(k, status, location, enc)
  \/ \E k \in Attempts : Data(k)
  \/ \E k \in Attempts : End(k)
  \/ \E k \in Attempts, e \in {"ECONNREFUSED", "ECONNRESET"} : ReqError(k, e)
  \/ \E k \in Attempts : HangUp(k)
  \/ \E k \in Attempts : TimerFire(k)
  \/ \E k \in Attempts : Decompressed(k, FALSE)
  \/ SinkFinish
  \/ SinkError

SpecConfig == InitConfig /\ [][NextConfig]_vars

\* ------------------------------------------------------- chains of attempts
\* budgets as a caller gives them: a number, or true for no limit
Budgets == {Num(n) : n \in 0..MaxBudget} \cup {Bool(TRUE)}

\* calls of a plain instance with any budgets, without first-byte timeout
\* and with an idle timeout; with or without a download path; plain GET
\* requests, and POST requests with a body, both hooks and an abort signal
CallsChain ==
  {[url |-> "h1",
    options |-> [Options({"headers", "timeout", "idleTimeout", "follow",
                          "retries"} \cup
                           (IF d = "none" THEN {} ELSE {"download"}) \cup
                           (IF post THEN {"signal"} ELSE {}),
                         [n \in {"X-A"} |-> "v"], 0, 5, f, r, d)
                   EXCEPT !.method = IF post THEN "POST" ELSE "GET",
                          !.data = IF post THEN "payload" ELSE "none",
                          !.progress = post,
                          !.preflight = IF post THEN "pipes" ELSE "none"]] :
     f \in Budgets, r \in Budgets, d \in {"none", "path"}, post \in BOOLEAN}

InitChain ==
  /\ self = Instance(0, 0, FALSE, "none")
  /\ call \in CallsChain
  /\ InitRequest

\* a redirect names another host, or is a relative reference
LocationsChain == {"none", "h2"} \cup RelativeRefs

\* with a budget of true a chain has no end: the events that can open a
\* further attempt are followed up to the third attempt
Chain == IF Len(att) <= 2 THEN Attempts ELSE {}

NextChain ==
  \/ CallRequest
  \/ \E k \in Attempts : Lookup(k)
  \/ \E k \in Chain, status \in Statuses, location \in LocationsChain :
        Headers(k, status, location, "none")
  \/ \E k \in Attempts : Data(k)
  \/ \E k \in Attempts : End(k)
  \/ \E k \in Chain : ReqError(k, "ECONNRESET")
  \/ \E k \in Attempts : HangUp(k)
  \/ \E k \in Chain : TimerFire(k)
  \/ SinkFinish
  \/ SinkError
  \/ AbortSignal

SpecChain == InitChain /\ [][NextChain]_vars

\* ------------------------------------------------------- compressed bodies
\* instances with and without setAutoDecompress( false ) and setAutoError
InstancesCodec ==
  {[Instance(0, 0, autoErr, "none") EXCEPT !.autoDecompress = auto] :
     auto \in BOOLEAN, autoErr \in BOOLEAN}

\* buffer mode calls with a retry budget
CallsCodec ==
  {[url |-> "h1",
    options |-> Options({"headers", "retries"}, [n \in {"X-A"} |-> "v"],
                        0, 0, Num(0), Num(r), "none")] : r \in 0..MaxBudget}

InitCodec ==
  /\ self \in InstancesCodec
  /\ call \in CallsCodec
  /\ InitRequest

\* the server answers 200 or 500, with a body in any of the content codings;
\* the body may be cut short or damaged
NextCodec ==
  \/ CallRequest
  \/ \E k \in Attempts : Lookup(k)
  \/ \E k \in Attempts, status \in {200, 500}, enc \in ContentEncodings :
        Headers(k, status, "none", enc)
  \/ \E k \in Attempts : Data(k)
  \/ \E k \in Attempts : End(k)
  \/ \E k \in Attempts, e \in {"ECONNREFUSED", "ECONNRESET"} : ReqError(k, e)
  \/ \E k \in Attempts : HangUp(k)
  \/ \E k \in Attempts : TimerFire(k)
  \/ \E k \in Attempts, corrupt \in BOOLEAN : Decompressed(k, corrupt)

SpecCodec == InitCodec /\ [][NextCodec]_vars

\* ------------------------------------------------------------ phase timing
\* the timings an attempt can have when finishPerf is called: every phase is
\* missing or was ended at a mark in 0..MaxMark, in any order
Timings ==
  {[has |-> {key \in PhaseNames : f[key] > 0},
    elapsed |-> [key \in PhaseNames |-> IF f[key] > 0 THEN f[key] - 1 ELSE 0]] :
     f \in [PhaseNames -> 0..(MaxMark + 1)]}

\* one plain request of a plain instance: finishPerf is called for its first
\* attempt, and for the attempt that follows a retry or redirect
InitPerf ==
  /\ self = Instance(0, 0, FALSE, "none")
  /\ call = [url |-> "h1",
              options |-> Options({"headers"}, [n \in {"X-A"} |-> "v"],
                                  0, 0, Num(0), Num(0), "none")]
  /\ InitRequest

\* finishPerf( perf, old_perf ) for an attempt that began at second s and
\* whose phases are p; the result is the options.perf of the next attempt.
\* first and sum keep the start of the first attempt and, by phase, the sum
\* of what each attempt spent in the phase alone
FinishPerf(p, s) ==
  /\ metrics.attempts # "later"
  /\ metrics.attempts = "first" => s > metrics.first
  /\ metrics' =
       [perf |-> finishPerfPhases(p, metrics.attempts = "first", metrics.perf),
        attempts |-> IF metrics.attempts = "none" THEN "first" ELSE "later",
        clamped |-> \E key \in p.has : Adjusted(p, key) < 0,
        start |-> finishPerfStart(s, metrics.attempts = "first", metrics.start),
        first |-> IF metrics.attempts = "none" THEN s ELSE metrics.first,
        sum |-> [key \in PhaseNames |->
                   metrics.sum[key]
                     + (IF key \in p.has THEN Clamp(Adjusted(p, key)) ELSE 0)]]
  /\ UNCHANGED <<self, call, att, outcomes, sink, signal, dns_cache, now,
                 twin>>

NextPerf == \E p \in Timings, s \in 0..MaxTime : FinishPerf(p, s)

SpecPerf == InitPerf /\ [][NextPerf]_vars

\* ------------------------------------------------- request bodies and headers
\* POST and GET calls whose caller sets headers of its own, with no body, a
\* raw body or a multipart form.

HeaderSetsBody ==
  {[n \in {"X-A"} |-> "v"],
   [n \in {"content-type"} |-> "text/plain"],
   [n \in {"User-Agent", "content-type"} |->
      IF n = "User-Agent" THEN "mine" ELSE "text/plain"]}

CallsBody ==
  {[url |-> "h1",
    options |-> [Options({"headers", "retries", "method"} \cup
                           (IF body = "none" THEN {} ELSE {"data"}),
                         h, 0, 0, Num(0), Num(r), "none")
                   EXCEPT !.method = IF body = "none" THEN "GET" ELSE "POST",
                          !.data = body]] :
     h \in HeaderSetsBody, r \in 0..MaxBudget,
     body \in {"none", "payload", "form"}}

InitBody ==
  /\ self = Instance(0, 0, FALSE, "none")
  /\ call \in CallsBody
  /\ InitRequest

NextBody ==
  \/ CallRequest
  \/ \E k \in Attempts : Lookup(k)
  \/ \E k \in Attempts, status \in {200, 500} : Headers(k, status, "none", "none")
  \/ \E k \in Attempts : Data(k)
  \/ \E k \in Attempts : End(k)
  \/ \E k \in Attempts, e \in {"ECONNREFUSED", "ECONNRESET"} : ReqError(k, e)
  \/ \E k \in Attempts : HangUp(k)
  \/ \E k \in Attempts : TimerFire(k)

SpecBody == InitBody /\ [][NextBody]_vars

\* ------------------------------------------------------- downloads with a hook
\* Calls with a download sink and a preflight hook of each kind, or none.

CallsHook ==
  {[url |-> "h1",
    options |-> [Options({"headers", "retries", "download"} \cup
                           (IF hook = "none" THEN {} ELSE {"preflight"}),
                         [n \in {"X-A"} |-> "v"], 0, 0, Num(0), Num(r), d)
                   EXCEPT !.preflight = hook]] :
     r \in 0..MaxBudget, d \in {"path", "stream"},
     hook \in Hooks \cup {"none"}}

InitHook ==
  /\ self = Instance(0, 0, FALSE, "none")
  /\ call \in CallsHook
  /\ InitRequest

\* the owner of a hook that left the sink without a pipe ends the sink
HookEnds ==
  /\ sink.state = "open"
  /\ \E k \in Attempts :
       /\ att[k].preflight \in {"skips", "declines"}
       /\ att[k].mode \in {"unpiped", "buffer", "zlib", "done"}
  /\ Commit([World EXCEPT !.sink.state = "ending"])

NextHook ==
  \/ CallRequest
  \/ \E k \in Attempts : Lookup(k)
  \/ \E k \in Attempts, status \in {200, 500}, enc \in {"none", "gzip"} :
        Headers(k, status, "none", enc)
  \/ \E k \in Attempts : Data(k)
  \/ \E k \in Attempts : End(k)
  \/ \E k \in Attempts, e \in {"ECONNREFUSED", "ECONNRESET"} : ReqError(k, e)
  \/ \E k \in Attempts : HangUp(k)
  \/ \E k \in Attempts : TimerFire(k)
  \/ \E k \in Attempts : Decompressed(k, FALSE)
  \/ SinkFinish
  \/ SinkError
  \/ HookEnds

SpecHook == InitHook /\ [][NextHook]_vars

\* ------------------------------------------- autoError on and off, side by side
\* The same call is made on two instances that differ in autoError only, and
\* every event of the transport reaches both.  twin is the world of the
\* second instance.

\* what the two requests leave alone
TwinKeeps == UNCHANGED <<self, call, now, metrics>>

TwinCallRequest ==
  /\ att = <<>>
  /\ twin.att = <<>>
  /\ CommitWorld(Request(World, call.url, call.options))
  /\ twin' = Request(twin, call.url, call.options)
  /\ TwinKeeps

TwinLookup(k) ==
  /\ \A w \in {World, twin} :
       /\ k \in 1..Len(w.att)
       /\ w.att[k].req \in {"wait", "destroyed"}
       /\ w.att[k].addr = "none"
  /\ CommitWorld(onLookup(World, k, Resolve(att[k].host)))
  /\ twin' = onLookup(twin, k, Resolve(twin.att[k].host))
  /\ TwinKeeps

\* the response headers reach the response handler of each instance
TwinHeaders(k, status, location, enc) ==
  /\ \A w \in {World, twin} :
       /\ k \in 1..Len(w.att)
       /\ w.att[k].req = "wait"
       /\ w.att[k].addr # "none"
  /\ location # "none" => status \in {302}
  /\ CommitWorld(responseHandlerFor(self.autoError, World, k, status,
                                    location, enc))
  /\ twin' = responseHandlerFor(~self.autoError, twin, k, status, location, enc)
  /\ TwinKeeps

TwinData(k) ==
  /\ \A w \in {World, twin} :
       /\ k \in 1..Len(w.att)
       /\ w.att[k].req = "resp"
       /\ w.att[k].sent < MaxChunks
  /\ CommitWorld(onData(World, k))
  /\ twin' = onData(twin, k)
  /\ TwinKeeps

TwinEnd(k) ==
  /\ \A w \in {World, twin} : k \in 1..Len(w.att) /\ w.att[k].req = "resp"
  /\ CommitWorld(onEnd(World, k))
  /\ twin' = onEnd(twin, k)
  /\ TwinKeeps

\* 'error' of the request or the response of attempt k of request w
Errored(w, k, e) ==
  handleSocketError([w EXCEPT !.att[k].req = "closed", !.att[k].fail = e], k, e)

TwinReqError(k, e) ==
  /\ \A w \in {World, twin} :
       /\ k \in 1..Len(w.att)
       /\ w.att[k].req \in {"wait", "resp"}
       /\ e = "ECONNRESET" \/ w.att[k].req = "wait"
  /\ CommitWorld(Errored(World, k, e))
  /\ twin' = Errored(twin, k, e)
  /\ TwinKeeps

\* the socket hang up of the destroyed attempt k of request w
HungUp(w, k) ==
  handleSocketError([w EXCEPT !.att[k].req = "closed"], k, "ECONNRESET")

TwinHangUp(k) ==
  /\ \A w \in {World, twin} :
       k \in 1..Len(w.att) /\ w.att[k].req = "destroyed"
  /\ CommitWorld(HungUp(World, k))
  /\ twin' = HungUp(twin, k)
  /\ TwinKeeps

\* the armed timer of attempt k of request w expires
Expired(w, k) ==
  LET msg == IF w.att[k].timer = "ttfb" THEN "Request Timeout"
             ELSE "Idle Timeout"
      expired == ~(w.att[k].receivedPacket /\ w.att[k].idleTimeout # 0)
  IN handleTimeout(
       [w EXCEPT !.att[k].timer = "none",
                 !.att[k].fail = IF expired /\ @ = "none" THEN msg ELSE @],
       k, msg)

TwinTimerFire(k) ==
  /\ \A w \in {World, twin} :
       k \in 1..Len(w.att) /\ w.att[k].timer # "none"
  /\ CommitWorld(Expired(World, k))
  /\ twin' = Expired(twin, k)
  /\ TwinKeeps

TwinDecompressed(k) ==
  /\ \A w \in {World, twin} :
       k \in 1..Len(w.att) /\ w.att[k].mode = "zlib"
  /\ CommitWorld(onDecompress(World, k, FALSE))
  /\ twin' = onDecompress(twin, k, FALSE)
  /\ TwinKeeps

\* the download sink of request w emits 'finish'
Finished(w) ==
  RunListeners([w EXCEPT !.sink.state = "finished"], w.sink.finishL, "finish")

TwinSinkFinish ==
  /\ \A w \in {World, twin} : w.sink.state = "ending"
  /\ CommitWorld(Finished(World))
  /\ twin' = Finished(twin)
  /\ TwinKeeps

\* the download sink of request w emits 'error'
SinkErrored(w) ==
  RunListeners([w EXCEPT !.sink.state = "errored"], w.sink.errL, "error")

TwinSinkError ==
  /\ \A w \in {World, twin} : w.sink.state \in {"open", "ending"}
  /\ CommitWorld(SinkErrored(World))
  /\ twin' = SinkErrored(twin)
  /\ TwinKeeps

NextTwin ==
  \/ TwinCallRequest
  \/ \E k \in Attempts : TwinLookup(k)
  \/ \E k \in Attempts, status \in StatusesConfig, location \in {"none", "h1"},
        enc \in {"none", "gzip"} : TwinHeaders(k, status, location, enc)
  \/ \E k \in Attempts : TwinData(k)
  \/ \E k \in Attempts : TwinEnd(k)
  \/ \E k \in Attempts, e \in {"ECONNREFUSED", "ECONNRESET"} :
        TwinReqError(k, e)
  \/ \E k \in Attempts : TwinHangUp(k)
  \/ \E k \in Attempts : TwinTimerFire(k)
  \/ \E k \in Attempts : TwinDecompressed(k)
  \/ TwinSinkFinish
  \/ TwinSinkError

SpecTwin == InitConfig /\ [][NextTwin]_vars

\* ---------------------------------------------------------------- properties
\* the attempts whose transport call is open
Open == {k \in Attempts : att[k].req \in {"wait", "resp"}}

\* the events that can still reach a handler of the logical request without
\* the caller doing anything
Events ==
  \/ \E k \in Attempts : Lookup(k)
  \/ \E k \in Attempts, status \in Statuses, location \in Locations,
        enc \in {"none", "gzip"} : Headers(k, status, location, enc)
  \/ \E k \in Attempts : Data(k)
  \/ \E k \in Attempts : End(k)
  \/ \E k \in Attempts, e \in {"ECONNREFUSED", "ECONNRESET"} : ReqError(k, e)
  \/ \E k \in Attempts : HangUp(k)
  \/ \E k \in Attempts : TimerFire(k)
  \/ \E k \in Attempts : Decompressed(k, FALSE)
  \/ SinkFinish
  \/ SinkError

\* C1: the caller's callback is invoked at most once for one logical request,
\* whatever the interleaving of timers, errors, ends, sink events and aborts
C1_CallbackAtMostOnce == Len(outcomes) <= 1

\* C2: a logical request with finite budgets never comes to rest without
\* having invoked the callback: once every transport call has ended or
\* failed, the sink has finished or failed and no timer or decompression is
\* pending, the callback has been invoked
C2_RestsOnlyAfterCallback ==
  (att # <<>> /\ ~ENABLED Events) => outcomes # <<>>

\* every attempt so far failed with a socket error or a first-byte timeout
AllAttemptsFailed ==
  /\ att # <<>>
  /\ sink.state # "errored"
  /\ \A k \in Attempts : att[k].status = 0 /\ att[k].fail # "none"

FailureMessage(f) ==
  IF f = "Request Timeout" THEN f ELSE SocketErrorMessage(f)

\* C3: with retry budget N, when every attempt fails with a socket error or a
\* first-byte timeout, exactly N+1 transport calls are opened and the callback
\* is invoked once, by the last attempt, with that attempt's own error
C3_RetriesThenLastError ==
  AllAttemptsFailed =>
    LET N == call.options.retries.v IN
    /\ Len(att) = N + 1
    /\ \A k \in Attempts : att[k].req # "none"
    /\ Len(outcomes) = 1
    /\ outcomes[1].by = N + 1
    /\ outcomes[1].res = 0
    /\ outcomes[1].err = FailureMessage(att[N + 1].fail)
    /\ outcomes[1].counters.retries = N
    /\ outcomes[1].counters.requests = N + 1

C3_Witness ==
  /\ AllAttemptsFailed
  /\ call.options.retries.v = MaxBudget
  /\ Len(att) = MaxBudget + 1
  /\ att[1].fail # att[Len(att)].fail
  /\ outcomes # <<>>

\* every attempt so far was answered 302 with a Location header, and nothing
\* else happened to the request
AllAnswersRedirect ==
  /\ att # <<>>
  /\ sink.state # "errored"
  /\ ~signal.aborted
  /\ \A k \in Attempts :
       att[k].status = 302 /\ att[k].location /\ att[k].fail = "none"

\* C4: with redirect budget M and a server that always answers 302 with a
\* Location, M responses are followed and the next one, received with no
\* follows remaining, is the response the callback gets, with no error
C4_FollowsThenSurfaces ==
  AllAnswersRedirect =>
    LET M == call.options.follow.v IN
    /\ Len(att) = M + 1
    /\ \A k \in 1..M : att[k].via = "redirect" /\ att[k].mode = "drain"
    /\ att[M + 1].follow.v = 0
    /\ att[M + 1].via = "none"
    /\ Len(outcomes) <= 1
    /\ outcomes # <<>> =>
         /\ outcomes[1].by = M + 1
         /\ outcomes[1].res = M + 1
         /\ outcomes[1].err = "none"
         /\ outcomes[1].counters.redirects = M

C4_Witness ==
  /\ AllAnswersRedirect
  /\ call.options.follow.v = MaxBudget
  /\ outcomes # <<>>

\* C5: an abort that fires before the callback was invoked yields the
\* 'Request Aborted' failure and no other outcome
C5_AbortYieldsAborted ==
  signal.early =>
    /\ Len(outcomes) <= 1
    /\ \A i \in DOMAIN outcomes : outcomes[i].err = "Request Aborted"

\* C6: an abort that fires after the callback was invoked changes nothing: no
\* further callback, no new attempt
C6_AbortAfterCallbackIsNoop ==
  [][(outcomes # <<>> /\ ~signal.aborted /\ signal'.aborted) =>
       (outcomes' = outcomes /\ Len(att') = Len(att))]_vars

\* C7 as stated: at most one attempt has an open transport call
C7_OneOpenTransport == Cardinality(Open) <= 1

\* C7: an attempt is succeeded only after it set its callback latch, so at
\* most one attempt with an open transport call can still invoke the
\* callback; an attempt succeeded after a timeout or a socket error has no
\* open transport call, one succeeded after a redirect or a retried status
\* may still be open while its response is drained
C7_OneLiveAttempt ==
  /\ \A k \in Attempts : k < Len(att) =>
       /\ att[k].callback_fired
       /\ att[k].via \in {"timeout", "error", "redirect", "status"}
       /\ att[k].via \in {"timeout", "error"} => k \notin Open
  /\ Cardinality({k \in Open : ~att[k].callback_fired}) <= 1

C7_Witness ==
  /\ Cardinality(Open) = 2
  /\ att[1].via \in {"redirect", "status"}
  /\ att[1].callback_fired /\ ~att[2].callback_fired

\* the address policy of an instance admits ip
PolicyAllows(inst, ip) ==
  /\ inst.hasWhitelist => ip \in inst.whitelist
  /\ inst.hasBlacklist => ip \notin inst.blacklist

\* C8: no response handed to the callback was obtained from an address the
\* instance's whitelist or blacklist rejects
C8_NoResponseFromRejectedAddress ==
  \A i \in DOMAIN outcomes :
    outcomes[i].res # 0 => PolicyAllows(self, att[outcomes[i].res].addr)

\* the caller's headers hold a malformed name or an invalid value
BadHeaders ==
  \E n \in DOMAIN call.options.headers :
    n \notin TokenNames \/ call.options.headers[n] \in BadValues

HeaderFailures == {"Invalid characters in header name",
                   "Invalid characters in header value"}

\* C9 as stated: bad headers always yield the validation error
C9_ValidationError ==
  (BadHeaders /\ att # <<>>) =>
    /\ Len(att) = 1 /\ att[1].req = "none"
    /\ Len(outcomes) = 1 /\ outcomes[1].err \in HeaderFailures

\* C9: with bad headers request() invokes the callback before it returns and
\* opens no transport call, now or later; the error is the validation error,
\* unless the URL is a literal address the policy rejects: that check runs
\* first and its error is delivered instead
C9_RejectedBeforeTransport ==
  (BadHeaders /\ att # <<>>) =>
    /\ Len(att) = 1 /\ att[1].req = "none"
    /\ Len(outcomes) = 1
    /\ outcomes[1].res = 0
    /\ IF call.url \in Addrs /\ ~PolicyAllows(self, call.url)
         THEN outcomes[1].err \in {"IP is not whitelisted", "IP is blacklisted"}
         ELSE outcomes[1].err \in HeaderFailures

C9_Witness ==
  /\ BadHeaders
  /\ call.options.retries.v >= 1
  /\ call.url \in Addrs /\ ~PolicyAllows(self, call.url)
  /\ outcomes # <<>>

\* C10: the body handed to the callback holds only bytes received by the
\* attempt whose response is delivered, in arrival order
C10_BodyOfLastAttempt ==
  \A i \in DOMAIN outcomes :
    \A j \in DOMAIN outcomes[i].body :
      outcomes[i].body[j] = <<outcomes[i].res, j>>

\* C11: once the callback has been invoked, no first-byte or idle timer of any
\* attempt of the request is armed
C11_NoTimerAfterCallback ==
  outcomes # <<>> => \A k \in Attempts : att[k].timer = "none"

\* the outcomes that report a failure of the transfer itself
TransferFailures ==
  {"Request Timeout", "Idle Timeout", "sink error", "Request Aborted",
   "IP is not whitelisted", "IP is blacklisted"}
    \cup {SocketErrorMessage(e) : e \in {"ENOTFOUND", "ECONNREFUSED", "ECONNRESET"}}

\* C12: once the callback has been invoked with a failure, no transport call
\* of the request is open
C12_NoOpenTransportAfterFailure ==
  (\E i \in DOMAIN outcomes : outcomes[i].err \in TransferFailures) => Open = {}

\* what was done with the response of attempt k
Decision(k) ==
  IF att[k].mode = "drain" /\ att[k].via = "redirect" THEN "Redirect"
  ELSE IF att[k].mode = "drain" /\ att[k].via = "status" THEN "Retry"
  ELSE IF att[k].mode \in {"stream", "unpiped", "buffer", "zlib", "done"}
    THEN "Proceed"
  ELSE "none"

Fresh(h) == dns_cache[h] # NoEntry /\ dns_cache[h].expires > now

\* C14: an instance whose DNS TTL is 0 never replaces the hostname of an
\* attempt by a cached address and adds no Host header; it resolves every
\* hostname itself, and no step of its request changes the shared cache,
\* whatever other instances stored there
C14_NoCacheWithoutTTL ==
  /\ [](self.dnsTTL = 0 =>
          \A k \in Attempts :
            /\ ~att[k].cached
            /\ att[k].hostname \in {att[k].url, "undefined"}
            /\ "Host" \notin DOMAIN att[k].headers
            /\ (att[k].status # 0 /\ att[k].url \in Names) => att[k].lookup)
  /\ [][(self.dnsTTL = 0 /\ att' # att) => dns_cache' = dns_cache]_vars

\* a peer cached the host of the call, the instance resolved it all the same
C14_Witness ==
  /\ self.dnsTTL = 0
  /\ att # <<>> /\ Fresh(att[1].url)
  /\ att[1].lookup /\ att[1].status # 0
  /\ outcomes # <<>>

\* C15: with a DNS TTL, a request() for a host whose cache entry has not
\* expired connects to the cached address, which is the address the host was
\* resolved to, sends a Host header with the hostname, and never resolves
C15_CachedAddressReused ==
  /\ [](\A k \in Attempts : att[k].cached =>
          /\ ~att[k].lookup
          /\ "Host" \in DOMAIN att[k].headers
          /\ att[k].headers["Host"] = att[k].url
          /\ att[k].addr = Resolve(att[k].url))
  /\ [][(self.dnsTTL # 0 /\ Len(att') > Len(att)) =>
          LET k == Len(att') IN
          Fresh(att'[k].url) => (att'[k].cached /\ att'[k].req = "wait")]_vars

\* the first attempt resolved the host, a later attempt to the same host
\* used the cache entry and its response was delivered
C15_Witness ==
  \E k \in Attempts :
    /\ k > 1 /\ att[k].cached /\ att[k].url = att[1].url
    /\ att[1].lookup /\ ~att[1].cached
    /\ outcomes # <<>> /\ outcomes[1].res = k

C17_RedirectIsNoError ==
  (self.autoError /\ call.options.follow.v # 0) =>
    \A i \in DOMAIN outcomes :
      LET k == outcomes[i].res IN
      (k # 0 /\ att[k].status \in {301, 302, 307, 308} /\ att[k].location)
        => outcomes[i].err = "none"

\* C18: an attempt is succeeded by a retry only after a socket error, a
\* timeout, or a response whose status matches the retry pattern (5xx, and
\* 302 where the instance's pattern takes it in) while retries remain; each
\* retry takes one from the budget.  A response with any other status that
\* is not followed is the last attempt's.
C18_RetryOnlyOnMatch ==
  \A k \in Attempts :
    LET a == att[k]
        matches == a.status \div 100 = 5
                   \/ (a.status = 302 /\ 302 \in self.retryMatch)
    IN /\ k < Len(att) => a.via \in {"redirect", "status", "timeout", "error"}
       /\ a.via = "status" => matches /\ a.retries.v # 0
       /\ a.via \in {"timeout", "error"} => a.fail # "none" /\ a.retries.v # 0
       /\ a.via \in {"status", "timeout", "error"} =>
            att[k + 1].retries.v = a.retries.v - 1
       /\ (a.status # 0 /\ ~matches /\ a.fail = "none") =>
            a.via \in {"none", "redirect"}

\* a 404 received with retries left was delivered by the first attempt
C18_Witness ==
  /\ Len(att) = 1
  /\ att[1].status = 404 /\ att[1].retries.v # 0
  /\ outcomes # <<>> /\ outcomes[1].res = 1

\* the call leaves follow and retries to the defaults of the class
DefaultBudgets == call.options.keys \cap {"follow", "retries"} = {}

\* C19: with the default follow and retries there is one attempt and at most
\* one callback; a 3xx response is not followed but handed to the caller, and
\* as soon as the request, the response, a timer or the sink has failed the
\* callback has been invoked with a failure
C19_DefaultsOneAttempt ==
  DefaultBudgets =>
    /\ Len(att) <= 1
    /\ Len(outcomes) <= 1
    /\ \A k \in Attempts :
         /\ att[k].follow.v = 0 /\ att[k].retries.v = 0
         /\ att[k].status \div 100 = 3 => Decision(k) = "Proceed"
         /\ (att[k].fail # "none" \/ sink.state = "errored") =>
              /\ outcomes # <<>>
              /\ outcomes[1].err \in TransferFailures
         /\ (outcomes # <<>> /\ outcomes[1].res # 0) =>
              outcomes[1].res = k /\ outcomes[1].by = k

\* a 302 with a Location was handed to the caller of a default call
C19_Witness ==
  /\ DefaultBudgets
  /\ att # <<>> /\ att[1].status = 302 /\ att[1].location
  /\ outcomes # <<>> /\ outcomes[1].res = 1

\* C20: every phase of the timing finishPerf returns has an elapsed time
\* >= 0, whichever phases are missing and in whatever order they ended, also
\* when the timing of an earlier attempt was merged in
C20_ElapsedNonNegative ==
  \A key \in metrics.perf.has : metrics.perf.elapsed[key] >= 0

\* a later attempt whose phases ended out of order, with an earlier attempt's
\* timing merged in
C20_Witness ==
  /\ metrics.attempts = "later"
  /\ metrics.clamped
  /\ \E key \in metrics.perf.has : metrics.perf.elapsed[key] > MaxMark

\* the attempts before attempt k that were succeeded in one of the given ways
Succeeded(k, ways) == {j \in 1..(k - 1) : att[j].via \in ways}

C22_BufferDecoded ==
  \A i \in DOMAIN outcomes :
    LET o == outcomes[i]
        k == o.res
    IN (o.kind = "buffer" /\ o.body # <<>>) =>
         /\ o.body = att[k].chunks
         /\ att[k].enc \in {"gzip", "deflate", "br"} =>
              o.coding = (IF self.autoDecompress THEN "none" ELSE att[k].enc)
         /\ att[k].enc = "none" => o.coding = "none"

\* a brotli body was received in full by an instance that decompresses and
\* handed to the callback as the plain payload
C22_Witness ==
  /\ self.autoDecompress
  /\ outcomes # <<>> /\ outcomes[1].kind = "buffer"
  /\ Len(outcomes[1].body) = MaxChunks
  /\ att[outcomes[1].res].enc = "br"
  /\ att[outcomes[1].res].mode = "done"
  /\ outcomes[1].coding = "none"

\* C23: once the callback has been invoked, no event opens a further attempt
C23_NoAttemptAfterCallback ==
  [][outcomes # <<>> => Len(att') = Len(att)]_vars

\* C24: with budgets retries = N and follow = M, the k-th attempt of the
\* request is left with budgets that are not negative and add up to
\* N + M - (k - 1): every retry and every redirect takes exactly one unit, none
\* gives a unit back to the other budget, and no attempt is succeeded twice.
\* So at most N + M + 1 transport calls are opened.
C24_BudgetBoundsAttempts ==
  LET N == call.options.retries.v
      M == call.options.follow.v
  IN /\ Len(att) <= N + M + 1
     /\ \A k \in Attempts :
          /\ att[k].retries.v >= 0 /\ att[k].follow.v >= 0
          /\ att[k].retries.v <= N /\ att[k].follow.v <= M
          /\ att[k].retries.v + att[k].follow.v = N + M - (k - 1)
          /\ k < Len(att) =>
               /\ att[k + 1].retries.v <= att[k].retries.v
               /\ att[k + 1].follow.v <= att[k].follow.v

\* both budgets were used up, one by a retry and one by a redirect, and the
\* response of the last attempt, retryable and redirecting alike, was handed
\* to the callback
C24_Witness ==
  /\ call.options.retries.v >= 1 /\ call.options.follow.v >= 1
  /\ Len(att) = call.options.retries.v + call.options.follow.v + 1
  /\ \E j, k \in Attempts : att[j].via = "redirect" /\ att[k].via # "redirect"
                               /\ k < Len(att)
  /\ \A k \in Attempts : att[k].req # "none"
  /\ att[Len(att)].status \in {302, 500}
  /\ outcomes # <<>> /\ outcomes[1].res = Len(att)

\* C25: an attempt that follows a redirect whose Location is a relative
\* reference sends its request to the host of the attempt that was redirected
C25_RelativeLocationResolved ==
  \A k \in Attempts :
    (k < Len(att) /\ att[k].via = "redirect"
       /\ att[k + 1].url \in RelativeRefs /\ att[k + 1].req # "none")
      => att[k + 1].host = att[k].host

\* what a recursion leaves as it is, whether it is a redirect or a retry
SameSettings(a, b) ==
  /\ b.timeout = a.timeout /\ b.idleTimeout = a.idleTimeout
  /\ b.download = a.download /\ b.signal = a.signal
  /\ b.preflight = a.preflight /\ b.progress = a.progress
  /\ b.method = a.method /\ b.data = a.data

\* a budget after one unit was taken: a number is one less, true stays true
OneLess(x, y) == IF x.isNum THEN y.isNum /\ y.v = x.v - 1 ELSE y = x

\* C26: the attempt that follows a redirect has one follow less (or true as
\* before) and the same retries, timeouts, sink, hooks, signal, method and
\* body; the attempt that follows a retry has one retry less (or true as
\* before) and the same follow, URL and everything else; so an attempt of a
\* call with a sink starts with the sink, and one of a call without, without
C26_RecursionFrame ==
  \A k \in Attempts : k < Len(att) =>
    LET a == att[k]
        b == att[k + 1]
    IN /\ SameSettings(a, b)
       \* the sink of the call is the sink of every attempt
       /\ b.status = 0 =>
            (b.download = "none") = ("download" \notin call.options.keys)
       /\ IF a.via = "redirect"
            THEN OneLess(a.follow, b.follow) /\ b.retries = a.retries
            ELSE /\ OneLess(a.retries, b.retries) /\ b.follow = a.follow
                 /\ b.url = a.url

\* a POST with a body, a sink, hooks and a signal, with follow true and a
\* number of retries, was redirected and then retried
C26_Witness ==
  /\ Len(att) >= 3
  /\ att[1].via = "redirect" /\ att[2].via \in {"status", "timeout", "error"}
  /\ ~att[1].follow.isNum /\ att[1].retries.isNum
  /\ att[1].data = "payload" /\ att[1].download = "stream" /\ att[1].signal
  /\ att[3].req # "none"

Timeouts == {"Request Timeout", "Idle Timeout"}

\* C27: an attempt whose first-byte or idle timer expired with no data
\* received has no open transport call from that step on, whether it was
\* retried or its failure delivered.  A timeout and a socket error use the
\* retries alike: with retries left the attempt is retried with one retry
\* less and the same URL and follow, with none left its own failure goes to
\* the callback; if neither happened the callback had been invoked before.
C27_TimeoutDestroysAndRetries ==
  \A k \in Attempts :
    LET a == att[k]
        way == IF a.fail \in Timeouts THEN "timeout" ELSE "error"
        mine == {i \in DOMAIN outcomes : outcomes[i].by = k}
    IN a.fail # "none" =>
         /\ k \notin Open
         /\ a.fail \in Timeouts => a.via \in {"none", "timeout"}
         /\ a.via = way =>
              /\ a.retries.v # 0 /\ k < Len(att)
              /\ OneLess(a.retries, att[k + 1].retries)
              /\ att[k + 1].follow = a.follow /\ att[k + 1].url = a.url
         /\ a.via = "none" => mine # {}
         /\ \A i \in mine :
              (outcomes[i].err \in Timeouts \cup {SocketErrorMessage(a.fail)}
                 /\ outcomes[i].res = 0)
                => a.retries.v = 0 /\ a.via = "none"

\* one attempt was retried after its idle timer expired and destroyed its
\* request, the next one after a socket error or when its own timer expired
C27_Witness ==
  /\ Len(att) >= 2
  /\ att[1].fail = "Idle Timeout" /\ att[1].via = "timeout"
  /\ att[1].status # 0 /\ att[1].req \in {"destroyed", "closed"}
  /\ att[2].fail # "none"
  /\ outcomes # <<>> /\ outcomes[1].by = 2

\* C28: the received flag of an attempt is cleared only by the expiry of its
\* idle timer, and that step does nothing else: the timer is armed again, no
\* request is destroyed, no attempt opened and no callback invoked.  A step
\* that retries an attempt after a timeout, or delivers a timeout failure,
\* starts from a state where no chunk arrived since the timer was armed.
C28_IdleTimerNeedsSilence ==
  /\ [][\A k \in Attempts :
          (att[k].receivedPacket /\ ~att'[k].receivedPacket) =>
            /\ att[k].timer = "idle"
            /\ att' = [att EXCEPT ![k].receivedPacket = FALSE]
            /\ outcomes' = outcomes /\ sink' = sink]_vars
  /\ [][\A k \in Attempts :
          (\/ att[k].via # "timeout" /\ att'[k].via = "timeout"
           \/ /\ Len(outcomes') > Len(outcomes)
              /\ outcomes'[Len(outcomes')].by = k
              /\ outcomes'[Len(outcomes')].err \in Timeouts)
            => ~(att[k].receivedPacket /\ att[k].idleTimeout # 0)]_vars

\* the idle timer of an attempt expired after a chunk had arrived and was
\* armed again; the response ended in time and was handed to the callback
C28_Witness ==
  \E k \in Attempts :
    /\ att[k].idleTimeout # 0 /\ att[k].mode = "buffer"
    /\ att[k].sent >= 1 /\ ~att[k].receivedPacket
    /\ att[k].fail = "none"
    /\ outcomes # <<>> /\ outcomes[1].by = k /\ outcomes[1].err = "none"
    /\ Len(outcomes[1].body) = att[k].sent

\* C29: an attempt that carries a Host header (the caller gave none) carries
\* the hostname of its own URL
C29_HostOfOwnTarget ==
  \A k \in Attempts :
    "Host" \in DOMAIN att[k].headers =>
      att[k].headers["Host"] = UrlHostname(att[k].url)

\* C30: every entry of the DNS cache is kept under the name of a host and
\* holds the address that host resolves to
C30_CacheEntriesSound ==
  \A h \in CacheKeys :
    dns_cache[h] # NoEntry => h \in Names /\ dns_cache[h].ip = Resolve(h)

AclFailures == {"IP is not whitelisted", "IP is blacklisted"}

\* C31: an attempt that delivers an ACL failure is the last of its request
\* and was not retried, whatever retries it had left, and it passes no
\* response; an attempt whose freshly resolved address is rejected while
\* nothing else has failed delivers that failure; and the step in which a
\* rejected address is resolved leaves the DNS cache as it was
C31_AclFailureIsFinal ==
  /\ [](\A i \in DOMAIN outcomes :
          outcomes[i].err \in AclFailures =>
            LET k == outcomes[i].by IN
            /\ k = Len(att) /\ att[k].via = "none"
            /\ outcomes[i].res = 0 /\ Len(outcomes) = 1
            /\ k \notin Open)
  /\ [](\A k \in Attempts :
          (att[k].lookup /\ ~PolicyAllows(self, att[k].addr)
             /\ att[k].fail = "none") =>
            \E i \in DOMAIN outcomes :
              outcomes[i].by = k /\ outcomes[i].err \in AclFailures)
  /\ [][\A k \in Attempts :
          (~att[k].lookup /\ att'[k].lookup
             /\ ~PolicyAllows(self, att'[k].addr))
            => dns_cache' = dns_cache]_vars

\* a host resolved to a rejected address by an instance that caches: the
\* failure was delivered with a retry left, and the cache holds no entry
C31_Witness ==
  /\ self.dnsTTL # 0
  /\ Len(att) = 1 /\ att[1].retries.v >= 1
  /\ att[1].lookup /\ ~PolicyAllows(self, att[1].addr)
  /\ dns_cache[att[1].url] = NoEntry
  /\ outcomes # <<>> /\ outcomes[1].err \in AclFailures
  /\ att[1].req = "closed"

\* C32: when the write stream opened for a download path emits an error
\* and the callback has not been invoked yet, that step invokes it with the
\* error
C32_SinkErrorDelivered ==
  [][(sink.state # "errored" /\ sink'.state = "errored"
        /\ "download" \in call.options.keys
        /\ call.options.download = "path" /\ outcomes = <<>>)
       => (Len(outcomes') = 1 /\ outcomes'[1].err = "sink error")]_vars

\* a world without its error values: the err of every attempt and of every
\* outcome blanked
Erase(w) ==
  [w EXCEPT !.att = [k \in 1..Len(w.att) |-> [w.att[k] EXCEPT !.err = "none"]],
            !.outcomes = [i \in 1..Len(w.outcomes) |->
                            [w.outcomes[i] EXCEPT !.err = "none"]]]

\* C33: the same call on two instances that differ in autoError only, fed the
\* same events, makes the same attempts and takes the same retry and redirect
\* decisions: the two runs are equal but for the error values, and an error
\* value that differs is the HTTP error of the instance that has autoError
C33_AutoErrorOnlyAddsError ==
  /\ Erase(World) = Erase(twin)
  /\ \A i \in 1..Len(outcomes) :
       outcomes[i].err # twin.outcomes[i].err
         => \/ self.autoError /\ outcomes[i].err = "HTTP"
               /\ twin.outcomes[i].err = "none"
            \/ ~self.autoError /\ twin.outcomes[i].err = "HTTP"
               /\ outcomes[i].err = "none"

C33_Witness ==
  /\ self.autoError
  /\ Len(att) = 2
  /\ att[1].via = "status"
  /\ att[2].status = 500
  /\ Len(outcomes) = 1
  /\ outcomes[1].err = "HTTP"
  /\ twin.outcomes[1].err = "none"

\* C34: on every attempt, a header the caller set under a name that the form
\* or the default headers also supply is sent with the caller's value
C34_CallerHeadersWin ==
  \A k \in Attempts :
    \A n \in DOMAIN call.options.headers \cap
              (DOMAIN form_headers \cup DOMAIN defaultHeaders) :
      att[k].headers[n] = call.options.headers[n]

\* C35: an attempt of an instance with a DNS TTL that is opened for a hostname
\* with a cache entry uses the entry only if the time is before its expiry;
\* at or after the expiry the entry is removed, the attempt keeps the hostname,
\* gets no Host header from the cache and is left to resolve the hostname
C35_ExpiredEntryDropped ==
  [][(self.dnsTTL # 0 /\ Len(att') > Len(att)) =>
       LET k == Len(att')
           h == att'[k].url
       IN (h \in Names /\ dns_cache[h] # NoEntry) =>
            /\ att'[k].cached => dns_cache[h].expires > now
            /\ dns_cache[h].expires <= now =>
                 /\ ~att'[k].cached
                 /\ dns_cache'[h] = NoEntry
                 /\ att'[k].hostname = h
                 /\ att'[k].req = "wait" /\ att'[k].addr = "none"
                 /\ ~att'[k].lookup]_vars

\* the first attempt resolved the host and cached the address; a second
\* attempt to the same host was opened when the entry had expired: the entry
\* is gone and the attempt waits for its own lookup
C35_Witness ==
  /\ self.dnsTTL # 0
  /\ now = DnsTTL
  /\ Len(att) = 2
  /\ att[1].url \in Names /\ att[2].url = att[1].url
  /\ att[1].lookup /\ att[1].status # 0
  /\ ~att[2].cached /\ att[2].req = "wait" /\ att[2].addr = "none"
  /\ dns_cache[att[2].url] = NoEntry

\* the attempts whose response went to the caller's side: stream or buffer
Proceeded ==
  {k \in Attempts :
     att[k].mode \in {"stream", "unpiped", "buffer", "zlib", "done"}}

\* C36: an attempt with a sink whose hook returned false is in buffer mode:
\* it has no finish listener on the sink, nothing of its response is written
\* to the sink, and its response is delivered with the buffer of the chunks
\* received.  An attempt whose hook returned anything else stays in stream
\* mode: nothing is written to the sink unless the hook piped, and its
\* response is delivered by the finish of the sink only
C36_HookDecides ==
  \A k \in Proceeded :
    LET a == att[k]
        mine == {i \in DOMAIN outcomes : outcomes[i].res = k}
        written == {j \in DOMAIN sink.data : sink.data[j][1] = k}
    IN /\ a.preflight = "declines" =>
            /\ a.mode \in {"buffer", "zlib", "done"}
            /\ \A j \in DOMAIN sink.finishL : sink.finishL[j] # k
            /\ written = {}
            /\ \A i \in mine : /\ outcomes[i].kind = "buffer"
                                /\ outcomes[i].body = a.chunks
                                /\ Len(a.chunks) = a.sent
       /\ a.preflight \in {"pipes", "skips"} =>
            /\ a.mode \in {"stream", "unpiped"}
            /\ a.chunks = <<>>
            /\ a.preflight = "skips" => written = {}
            /\ \A i \in mine : /\ outcomes[i].kind = "sink"
                                /\ sink.state = "finished"

\* the hook of a download returned false; the body arrived and was handed
\* to the callback as a buffer, and the finish of the sink, which its owner
\* ended, delivered nothing
C36_Witness ==
  /\ Len(att) = 1
  /\ call.options.download = "stream"
  /\ att[1].preflight = "declines"
  /\ sink.state = "finished" /\ sink.data = <<>>
  /\ Len(outcomes) = 1
  /\ outcomes[1].kind = "buffer" /\ Len(outcomes[1].body) = MaxChunks

\* the headers object of the caller's options: the shallow copy that
\* request() makes of the options shares it, and so does the copy of every
\* recursion
callerHeaders ==
  IF att = <<>> \/ "headers" \notin call.options.keys
    THEN call.options.headers
  ELSE att[Len(att)].headers

\* C37: whatever request() and its recursions have done, the headers object
\* of the caller holds the names and values the caller put there
C37_CallerOptionsUntouched == callerHeaders = call.options.headers

\* C38: when the call gives no idleTimeout and setIdleTimeout() was never
\* called, an attempt whose response headers arrived and whose response is
\* being received has the idle timer armed, with the class default
C38_DefaultIdleTimer ==
  \A k \in Attempts :
    ("idleTimeout" \notin call.options.keys /\ self.defaultIdleTimeout = 0
       /\ att[k].req = "resp" /\ att[k].mode \in {"buffer", "stream"}
       /\ att[k].fail = "none" /\ ~att[k].aborted)
      => /\ att[k].idleTimeout = proto_idleTimeout
         /\ att[k].timer = "idle"

\* C39: the counters of every timing handed to the callback satisfy
\* requests = retries + redirects + 1, and requests is the number of attempts
\* of the chain that ends with the calling attempt
C39_RequestsCountAttempts ==
  \A i \in DOMAIN outcomes :
    LET c == outcomes[i].counters IN
    outcomes[i].timing =>
      /\ c.requests = c.retries + c.redirects + 1
      /\ c.requests = outcomes[i].by

\* a redirect, then a retry, then a response that was delivered: three
\* requests, one retry and one redirect
C39_Witness ==
  /\ Len(att) = 3
  /\ att[1].via = "redirect" /\ att[2].via # "none"
  /\ Len(outcomes) = 1
  /\ outcomes[1].timing /\ outcomes[1].by = 3
  /\ outcomes[1].counters = [requests |-> 3, retries |-> 1, redirects |-> 1]

\* C40: the timing that finishPerf returns for the last attempt of a chain
\* has the start of the first attempt as the start of its total, and for
\* every other phase the sum, over the attempts, of the time the attempt
\* spent in that phase alone
C40_TimingSpansChain ==
  /\ metrics.attempts # "none" => metrics.start = metrics.first
  /\ \A key \in PhaseNames : metrics.perf.elapsed[key] = metrics.sum[key]

\* a second attempt that began later than the first: the total starts with
\* the first, and a phase holds more than one attempt can spend in it
C40_Witness ==
  /\ metrics.attempts = "later"
  /\ ~metrics.clamped
  /\ metrics.first = 0 /\ metrics.start = 0
  /\ \E key \in PhaseNames \ {"dns"} : metrics.perf.elapsed[key] > MaxMark

====
